---- MODULE Spec2Model ----
(***************************************************************************)
(* Model of commit_analysis.py: the git-log parser, the date filter and    *)
(* grouper, the Gemini summarizer client, the task-point extractor, the    *)
(* report writer, the remembered-repository list and the top-level flow.   *)
(*                                                                         *)
(* Strings are sequences of integer symbols.  The characters the code      *)
(* tests for (newline, space, '|', '*', '-', '/') are the negative symbols *)
(* below; symbols above 9999 are ordinary characters.  A date string       *)
(* "YYYY-MM-DD" is the three fixed-width digit groups <<YYYY, MM, DD>>,    *)
(* so comparing two date strings symbol by symbol is Python's string       *)
(* comparison of the zero-padded text.                                     *)
(***************************************************************************)
EXTENDS Integers, Sequences, FiniteSets, TLC

VARIABLES
    pc,            \* position of the operation or of the top-level flow
    exc,           \* the exception that ended the operation, "" if none
    summary,       \* extract_task_points: its argument
    points,        \* extract_task_points: its result
    result,        \* fetch_commits: what subprocess.run gave (error, stdout)
    commits,       \* list of {hash, date, message}
    start_date,    \* optional bound / resolved start
    end_date,      \* optional bound / resolved end
    filtered,      \* filter_commits' result
    grouped,       \* group_commits_by_date's result: date string -> messages
    messages,      \* summarize_with_gemini: the messages of one date
    response,      \* what the remote API answered to the POST
    returned,      \* summarize_with_gemini: its return value
    repos_file,    \* repos.txt: absent, or its text
    saved,         \* the arguments of the save_repo_path calls so far, in order
    repo_path,     \* the chosen repository path
    api_key,       \* the credential
    exit_code,     \* sys.exit's argument, -1 while the process runs
    choice,        \* the analysis type the operator entered
    console,       \* the last message printed before an exit
    todo,          \* analyze_commits: the sorted dates not yet summarized
    output_lines,  \* analyze_commits: the document's lines so far
    all_points,    \* analyze_commits: the extracted points so far
    calls,         \* the summarizer calls made so far: date, response, summary
    files,         \* the report files: path -> text
    report_file,   \* analyze_commits: the report's path
    writes         \* how many times this run opened the report for writing

varsE == <<summary, points>>
varsF == <<result, commits>>
varsG == <<start_date, end_date, filtered, grouped>>
varsS == <<messages, response, returned>>
varsR == <<repos_file, saved>>
varsM == <<repo_path, api_key, exit_code, choice, console, todo, output_lines,
           all_points, calls, files, report_file, writes>>
vars == <<pc, exc, varsE, varsF, varsG, varsS, varsR, varsM>>

-----------------------------------------------------------------------------
(* Characters *)

NL == -1
SP == -2
PIPE == -3
STAR == -4
DASH == -5
SLASH == -6

\* an ordinary character, by its code
Chr(code) == 10000 + code
LetterA == Chr(97)
LetterB == Chr(98)

Whitespace == {SP, NL}

-----------------------------------------------------------------------------
(* Bounds *)

MaxSummaryLen == 7
MaxOut == 7
MaxCommits == 3
MaxSaves == 3
MaxLog == 3

-----------------------------------------------------------------------------
(* str methods *)

RECURSIVE lstrip(_, _)
lstrip(s, chars) ==
    IF s # <<>> /\ Head(s) \in chars THEN lstrip(Tail(s), chars) ELSE s

RECURSIVE rstrip(_, _)
rstrip(s, chars) ==
    IF s # <<>> /\ s[Len(s)] \in chars
    THEN rstrip(SubSeq(s, 1, Len(s) - 1), chars)
    ELSE s

strip(s) == rstrip(lstrip(s, Whitespace), Whitespace)

\* index of the first sep in s, 0 if there is none
RECURSIVE find(_, _, _)
find(s, sep, i) ==
    IF i > Len(s) THEN 0
    ELSE IF s[i] = sep THEN i
    ELSE find(s, sep, i + 1)

\* s.split(sep, maxsplit); maxsplit = -1 is no limit
RECURSIVE split(_, _, _)
split(s, sep, maxsplit) ==
    LET i == find(s, sep, 1) IN
    IF maxsplit = 0 \/ i = 0 THEN <<s>>
    ELSE <<SubSeq(s, 1, i - 1)>> \o split(SubSeq(s, i + 1, Len(s)), sep, maxsplit - 1)

\* s.splitlines(): no empty last line for a trailing line break
splitlines(s) ==
    IF s = <<>> THEN <<>>
    ELSE LET p == split(s, NL, -1) IN
         IF p[Len(p)] = <<>> THEN SubSeq(p, 1, Len(p) - 1) ELSE p

\* sep.join(parts)
RECURSIVE join(_, _)
join(sep, parts) ==
    IF parts = <<>> THEN <<>>
    ELSE IF Len(parts) = 1 THEN parts[1]
    ELSE parts[1] \o sep \o join(sep, Tail(parts))

\* every sequence over S of length at most n
RECURSIVE SeqsUpTo(_, _)
SeqsUpTo(S, n) ==
    IF n = 0 THEN {<<>>}
    ELSE LET shorter == SeqsUpTo(S, n - 1) IN
         shorter \cup {Append(s, x) : s \in {t \in shorter : Len(t) = n - 1}, x \in S}

-----------------------------------------------------------------------------
(* extract_task_points *)

\* re.match(r'^[*-]\s+', line)
IsBullet(line) ==
    /\ Len(line) >= 2
    /\ line[1] \in {STAR, DASH}
    /\ line[2] \in Whitespace

\* the for loop over summary.splitlines()
RECURSIVE BulletPoints(_)
BulletPoints(lines) ==
    IF lines = <<>> THEN <<>>
    ELSE LET line == strip(Head(lines)) IN
         (IF IsBullet(line) THEN <<strip(lstrip(line, {STAR, DASH}))>> ELSE <<>>)
             \o BulletPoints(Tail(lines))

\* the fallback tested on the summary instead of on the stripped summary
extract_task_points_unstripped(s) ==
    LET pts == BulletPoints(splitlines(s)) IN
    IF pts = <<>> /\ s # <<>> THEN <<strip(s)>> ELSE pts

extract_task_points(s) ==
    LET pts == BulletPoints(splitlines(s)) IN
    IF pts = <<>> /\ strip(s) # <<>> THEN <<strip(s)>> ELSE pts

-----------------------------------------------------------------------------
(* fetch_commits *)

\* the split without its limit of two
RECURSIVE ParseLinesSplitAll(_)
ParseLinesSplitAll(lines) ==
    IF lines = <<>> THEN <<>>
    ELSE LET line == Head(lines)
             parts == split(line, PIPE, -1)
         IN  (IF strip(line) # <<>> /\ Len(parts) = 3
              THEN <<[hash |-> parts[1], date |-> parts[2], message |-> parts[3]]>>
              ELSE <<>>)
                 \o ParseLinesSplitAll(Tail(lines))

\* the for loop over lines
RECURSIVE ParseLines(_)
ParseLines(lines) ==
    IF lines = <<>> THEN <<>>
    ELSE LET line == Head(lines)
             parts == split(line, PIPE, 2)
         IN  (IF strip(line) # <<>> /\ Len(parts) = 3
              THEN <<[hash |-> parts[1], date |-> parts[2], message |-> parts[3]]>>
              ELSE <<>>)
                 \o ParseLines(Tail(lines))

\* res: what subprocess.run did; an error (non-zero exit under check=True, a
\* missing tool or directory) is caught and gives the empty list
fetch_commits(res) ==
    IF res.error # "" THEN <<>>
    ELSE ParseLines(split(strip(res.stdout), NL, -1))

-----------------------------------------------------------------------------
(* dates *)

None == [type |-> "None"]
DateObj(v) == [type |-> "date", val |-> v]
StrObj(v) == [type |-> "str", val |-> v]

IsLeap(y) == (y % 4 = 0 /\ y % 100 # 0) \/ y % 400 = 0

DaysInMonth(y, m) ==
    IF m = 2 THEN (IF IsLeap(y) THEN 29 ELSE 28)
    ELSE IF m \in {4, 6, 9, 11} THEN 30
    ELSE 31

\* datetime.datetime.strptime(s, '%Y-%m-%d').date(): the date, or ValueError
strptime(s) ==
    IF /\ Len(s) = 3
       /\ s[1] \in 1..9999
       /\ s[2] \in 1..12
       /\ s[3] \in 1..DaysInMonth(s[1], s[2])
    THEN [exc |-> "", value |-> DateObj(<<s[1], s[2], s[3]>>)]
    ELSE [exc |-> "ValueError", value |-> None]

\* <= in place of <
DateNotAfter(a, b) ==
    \/ a.val[1] < b.val[1]
    \/ a.val[1] = b.val[1] /\ a.val[2] < b.val[2]
    \/ a.val[1] = b.val[1] /\ a.val[2] = b.val[2] /\ a.val[3] <= b.val[3]

\* date.__lt__: by year, then month, then day
DateLess(a, b) ==
    \/ a.val[1] < b.val[1]
    \/ a.val[1] = b.val[1] /\ a.val[2] < b.val[2]
    \/ a.val[1] = b.val[1] /\ a.val[2] = b.val[2] /\ a.val[3] < b.val[3]

\* d.strftime('%Y-%m-%d')
strftime(d) == <<d.val[1], d.val[2], d.val[3]>>

\* d - datetime.timedelta(days=1)
MinusOneDay(d) ==
    LET y == d.val[1]
        m == d.val[2]
        dd == d.val[3]
    IN  IF dd > 1 THEN DateObj(<<y, m, dd - 1>>)
        ELSE IF m > 1 THEN DateObj(<<y, m - 1, DaysInMonth(y, m - 1)>>)
        ELSE DateObj(<<y - 1, 12, 31>>)

\* str.__lt__: by the first differing symbol, a proper prefix first
RECURSIVE StrLess(_, _)
StrLess(a, b) ==
    IF b = <<>> THEN FALSE
    ELSE IF a = <<>> THEN TRUE
    ELSE IF Head(a) # Head(b) THEN Head(a) < Head(b)
    ELSE StrLess(Tail(a), Tail(b))

\* sorted(S) for a set of strings
RECURSIVE sorted(_)
sorted(S) ==
    IF S = {} THEN <<>>
    ELSE LET m == CHOOSE x \in S : \A y \in S : x = y \/ StrLess(x, y) IN
         <<m>> \o sorted(S \ {m})

-----------------------------------------------------------------------------
(* filter_commits, group_commits_by_date *)

\* the for loop of filter_commits; acc is the list `filtered` so far
RECURSIVE FilterLoop(_, _, _, _)
FilterLoop(cs, sd, ed, acc) ==
    IF cs = <<>> THEN [exc |-> "", value |-> acc]
    ELSE LET commit == Head(cs)
             parsed == strptime(commit.date)
             commit_date == parsed.value
         IN  IF parsed.exc # "" THEN [exc |-> parsed.exc, value |-> <<>>]
             ELSE IF sd # None /\ DateLess(commit_date, sd)
                  THEN FilterLoop(Tail(cs), sd, ed, acc)
             ELSE IF ed # None /\ DateLess(ed, commit_date)
                  THEN FilterLoop(Tail(cs), sd, ed, acc)
             ELSE FilterLoop(Tail(cs), sd, ed, Append(acc, commit))

filter_commits(cs, sd, ed) == FilterLoop(cs, sd, ed, <<>>)

\* the list of a date replaced instead of appended to
GroupOverwrite(g, commit) ==
    IF commit.date \in DOMAIN g
    THEN [g EXCEPT ![commit.date] = <<commit.message>>]
    ELSE g @@ (commit.date :> <<commit.message>>)

\* grouped[commit['date']].append(commit['message']) on a defaultdict(list)
GroupAppend(g, commit) ==
    IF commit.date \in DOMAIN g
    THEN [g EXCEPT ![commit.date] = Append(@, commit.message)]
    ELSE g @@ (commit.date :> <<commit.message>>)

RECURSIVE GroupLoop(_, _)
GroupLoop(cs, g) ==
    IF cs = <<>> THEN g ELSE GroupLoop(Tail(cs), GroupAppend(g, Head(cs)))

group_commits_by_date(cs) == GroupLoop(cs, <<>>)

-----------------------------------------------------------------------------
(* summarize_with_gemini *)

\* A string literal of the source as one symbol, named by its source line
Literal(line) == 20000 + line

\* str(e) of an exception as one symbol
ExcText(e) ==
    CASE e = "ConnectionError" -> <<30001>>
      [] e = "Timeout" -> <<30002>>
      [] e = "HTTPError" -> <<30003>>
      [] e = "JSONDecodeError" -> <<30004>>
      [] e = "KeyError:content" -> <<30005>>
      [] e = "KeyError:parts" -> <<30006>>
      [] e = "KeyError:text" -> <<30007>>
      [] e = "IndexError" -> <<30008>>
      [] OTHER -> <<30000>>

\* "[No summary returned by Gemini API]"
NoSummary == <<Literal(94)>>

\* f"[Gemini API error: {e}]"
GeminiError(e) == <<Literal(96)>> \o ExcText(e) \o <<Chr(93)>>

\* What the remote end did with the POST: requests.post raised (raises), or
\* it answered with a status and a body that is JSON (an object) or is not
Answer(status, valid, json) ==
    [raises |-> "", status |-> status, valid |-> valid, json |-> json]
NoResponse == [raises |-> "none", status |-> 0, valid |-> FALSE, json |-> [empty |-> 0]]
NetworkError == [NoResponse EXCEPT !.raises = "ConnectionError"]
TimedOut == [NoResponse EXCEPT !.raises = "Timeout"]
HttpError(status) == Answer(status, TRUE, [error |-> status])
NotJson == Answer(200, FALSE, [empty |-> 0])
Candidates(text) ==
    Answer(200, TRUE, [candidates |-> <<[content |-> [parts |-> <<[text |-> text]>>]]>>])
NoCandidates == Answer(200, TRUE, [promptFeedback |-> 0])
EmptyCandidates == Answer(200, TRUE, [candidates |-> <<>>])
NoContent == Answer(200, TRUE, [candidates |-> <<[finishReason |-> 0]>>])
NoParts == Answer(200, TRUE, [candidates |-> <<[content |-> [role |-> 0]]>>])
EmptyParts == Answer(200, TRUE, [candidates |-> <<[content |-> [parts |-> <<>>]]>>])
NoText == Answer(200, TRUE,
              [candidates |-> <<[content |-> [parts |-> <<[inlineData |-> 0]>>]]>>])

\* result['candidates'][0]['content']['parts'][0]['text']
FirstCandidateText(json) ==
    LET c == json.candidates[1] IN
    IF "content" \notin DOMAIN c THEN [exc |-> "KeyError:content", value |-> <<>>]
    ELSE IF "parts" \notin DOMAIN c.content THEN [exc |-> "KeyError:parts", value |-> <<>>]
    ELSE IF c.content.parts = <<>> THEN [exc |-> "IndexError", value |-> <<>>]
    ELSE IF "text" \notin DOMAIN c.content.parts[1]
         THEN [exc |-> "KeyError:text", value |-> <<>>]
    ELSE [exc |-> "", value |-> c.content.parts[1].text]

\* the body of the try block without the test that candidates is not empty
TryPostKeyOnly(resp) ==
    IF resp.raises # "" THEN [exc |-> resp.raises, value |-> <<>>]
    ELSE IF resp.status >= 400 THEN [exc |-> "HTTPError", value |-> <<>>]
    ELSE IF ~resp.valid THEN [exc |-> "JSONDecodeError", value |-> <<>>]
    ELSE IF "candidates" \in DOMAIN resp.json
         THEN (IF resp.json.candidates = <<>>
               THEN [exc |-> "IndexError", value |-> <<>>]
               ELSE FirstCandidateText(resp.json))
    ELSE [exc |-> "", value |-> NoSummary]

\* the body of the try block
TryPost(resp) ==
    IF resp.raises # "" THEN [exc |-> resp.raises, value |-> <<>>]
    ELSE IF resp.status >= 400 THEN [exc |-> "HTTPError", value |-> <<>>]
    ELSE IF ~resp.valid THEN [exc |-> "JSONDecodeError", value |-> <<>>]
    ELSE IF "candidates" \in DOMAIN resp.json /\ resp.json.candidates # <<>>
         THEN FirstCandidateText(resp.json)
    ELSE [exc |-> "", value |-> NoSummary]

\* except requests.RequestException in place of except Exception
summarize_catching_requests_only(msgs, key, resp) ==
    LET r == TryPost(resp) IN
    IF r.exc \in {"ConnectionError", "Timeout", "HTTPError"}
    THEN [exc |-> "", value |-> GeminiError(r.exc)]
    ELSE r

\* The request is the prompt built from msgs and the key; resp is the remote
\* end's answer to it.  except Exception catches every exception of the body.
summarize_with_gemini(msgs, key, resp) ==
    LET r == TryPost(resp) IN
    IF r.exc # "" THEN [exc |-> "", value |-> GeminiError(r.exc)] ELSE r

-----------------------------------------------------------------------------
(* load_repo_paths, save_repo_path *)

Absent == [exists |-> FALSE, text |-> <<>>]

\* [line.strip() for line in f if line.strip()]
RECURSIVE StrippedLines(_)
StrippedLines(lines) ==
    IF lines = <<>> THEN <<>>
    ELSE (IF strip(Head(lines)) # <<>> THEN <<strip(Head(lines))>> ELSE <<>>)
             \o StrippedLines(Tail(lines))

load_repo_paths(f) ==
    IF ~f.exists THEN <<>> ELSE StrippedLines(split(f.text, NL, -1))

\* the append without the membership test
save_repo_path_always(f, path) ==
    [exists |-> TRUE, text |-> f.text \o path \o <<NL>>]

\* open(REPO_LIST_FILE, 'a') creates the file when it is absent
save_repo_path(f, path) ==
    IF \E i \in 1..Len(load_repo_paths(f)) : load_repo_paths(f)[i] = path
    THEN f
    ELSE [exists |-> TRUE, text |-> f.text \o path \o <<NL>>]

-----------------------------------------------------------------------------
(* The values of the variables an operation does not use *)

IdleE == summary = <<>> /\ points = <<>>
IdleF == result = [error |-> "", stdout |-> <<>>] /\ commits = <<>>
IdleG == start_date = None /\ end_date = None /\ filtered = <<>> /\ grouped = <<>>
IdleS == messages = <<>> /\ response = NoResponse /\ returned = <<>>
IdleR == repos_file = Absent /\ saved = <<>>
IdleM ==
    /\ repo_path = <<>>
    /\ api_key = ""
    /\ exit_code = -1
    /\ choice = ""
    /\ console = ""
    /\ todo = <<>>
    /\ output_lines = <<>>
    /\ all_points = <<>>
    /\ calls = <<>>
    /\ files = <<>>
    /\ report_file = <<>>
    /\ writes = 0

-----------------------------------------------------------------------------
(* extract_task_points applied to every summary of at most MaxSummaryLen    *)
(* characters                                                              *)

SummaryAlphabet == {NL, SP, STAR, DASH, LetterA}

InitExtract ==
    /\ pc = "call"
    /\ exc = ""
    /\ summary \in SeqsUpTo(SummaryAlphabet, MaxSummaryLen)
    /\ points = <<>>
    /\ IdleF /\ IdleG /\ IdleS /\ IdleR /\ IdleM

ExtractTaskPoints ==
    /\ pc = "call"
    /\ pc' = "return"
    /\ points' = extract_task_points(summary)
    /\ UNCHANGED <<exc, summary, varsF, varsG, varsS, varsR, varsM>>

NextExtract == ExtractTaskPoints

SpecExtract == InitExtract /\ [][NextExtract]_vars

\* the lines that, trimmed, start with a marker followed by whitespace
MarkedLines(s) ==
    LET pieces == split(s, NL, -1)
        trimmed == [i \in 1..Len(pieces) |-> strip(pieces[i])]
        Marked(l) == Len(l) >= 2 /\ l[1] \in {STAR, DASH} /\ l[2] \in Whitespace
    IN  SelectSeq(trimmed, Marked)

\* a marked line without its marker and the whitespace around the rest
Unmarked(s) ==
    LET ls == MarkedLines(s) IN [i \in 1..Len(ls) |-> strip(Tail(ls[i]))]

\* C6 as stated: the marked lines' points in line order; with none, the trimmed
\* summary as the only point when the summary is non-empty, no point when it is
\* empty.
C6_AsStated ==
    pc = "return" =>
        points = IF Unmarked(summary) # <<>> THEN Unmarked(summary)
                 ELSE IF summary # <<>> THEN <<strip(summary)>>
                 ELSE <<>>

\* C6 amended: the marked lines' points in line order; with none, the trimmed
\* summary as the only point when the summary holds a non-whitespace character,
\* no point when it is empty or only whitespace.
C6_ExtractTaskPoints ==
    pc = "return" =>
        points = IF Unmarked(summary) # <<>> THEN Unmarked(summary)
                 ELSE IF \E i \in 1..Len(summary) : summary[i] \notin Whitespace
                      THEN <<strip(summary)>>
                 ELSE <<>>

C6_Witness ==
    /\ pc = "return"
    /\ Len(points) = 2
    /\ points[1] # points[2]

-----------------------------------------------------------------------------
(* fetch_commits applied to every git output of at most MaxOut characters,  *)
(* and to a failed git run                                                 *)

OutAlphabet == {NL, SP, PIPE, LetterA}

InitFetch ==
    /\ pc = "call"
    /\ exc = ""
    /\ result \in {[error |-> "", stdout |-> t] : t \in SeqsUpTo(OutAlphabet, MaxOut)}
                  \cup {[error |-> "CalledProcessError", stdout |-> <<>>]}
    /\ commits = <<>>
    /\ IdleE /\ IdleG /\ IdleS /\ IdleR /\ IdleM

FetchCommits ==
    /\ pc = "call"
    /\ pc' = "return"
    /\ commits' = fetch_commits(result)
    /\ UNCHANGED <<exc, result, varsE, varsG, varsS, varsR, varsM>>

NextFetch == FetchCommits

SpecFetch == InitFetch /\ [][NextFetch]_vars

\* the lines of the output as the code splits it
OutputLines == split(strip(result.stdout), NL, -1)

Delimiters(line) == Cardinality({i \in 1..Len(line) : line[i] = PIPE})

\* the record of a line by the places of its first two delimiters
RecordOf(line) ==
    LET first == CHOOSE i \in 1..Len(line) :
                     line[i] = PIPE /\ \A j \in 1..(i - 1) : line[j] # PIPE
        second == CHOOSE i \in (first + 1)..Len(line) :
                     line[i] = PIPE /\ \A j \in (first + 1)..(i - 1) : line[j] # PIPE
    IN  [hash |-> SubSeq(line, 1, first - 1),
         date |-> SubSeq(line, first + 1, second - 1),
         message |-> SubSeq(line, second + 1, Len(line))]

RecordsOf(lines) == [i \in 1..Len(lines) |-> RecordOf(lines[i])]

\* C2 as stated: the records are those of the lines with exactly two
\* delimiters, in order; every other line is dropped.
C2_AsStated ==
    LET Exactly2(l) == Delimiters(l) = 2 IN
    (pc = "return" /\ result.error = "") =>
        commits = RecordsOf(SelectSeq(OutputLines, Exactly2))

\* C2 amended: a line with fewer than two delimiters is dropped and changes no
\* other line's record; every line with two or more delimiters yields one
\* record: the text before the first delimiter, the text between the first two,
\* and everything after the second (further delimiters included).
C2_FetchCommits ==
    LET AtLeast2(l) == Delimiters(l) >= 2 IN
    (pc = "return" /\ result.error = "") =>
        commits = RecordsOf(SelectSeq(OutputLines, AtLeast2))

C2_Witness ==
    /\ pc = "return"
    /\ Len(commits) = 2
    /\ Len(OutputLines) = 3
    /\ \E i \in 1..2 : commits[i].message # <<>>

-----------------------------------------------------------------------------
(* filter_commits and group_commits_by_date applied to every list of at     *)
(* most MaxCommits commits                                                 *)

ValidDates == {<<2023, 12, 31>>, <<2024, 1, 31>>, <<2024, 2, 1>>}
MalformedDates == {<<2024, 2, 30>>}
Subjects == {<<LetterA>>, <<LetterB>>}
Bounds == {None} \cup {DateObj(d) : d \in ValidDates}

CommitRecords ==
    {[hash |-> <<LetterA>>, date |-> d, message |-> m] :
        d \in ValidDates \cup MalformedDates, m \in Subjects}

InitCommits ==
    /\ pc = "call"
    /\ exc = ""
    /\ commits \in SeqsUpTo(CommitRecords, MaxCommits)
    /\ start_date \in Bounds
    /\ end_date \in Bounds
    /\ filtered = <<>>
    /\ grouped = <<>>
    /\ result = [error |-> "", stdout |-> <<>>]
    /\ IdleE /\ IdleS /\ IdleR /\ IdleM

FilterCommits ==
    /\ pc = "call"
    /\ LET r == filter_commits(commits, start_date, end_date) IN
        /\ pc' = IF r.exc = "" THEN "filtered" ELSE "raised"
        /\ exc' = r.exc
        /\ filtered' = r.value
    /\ UNCHANGED <<start_date, end_date, grouped, varsE, varsF, varsS, varsR, varsM>>

GroupCommitsByDate ==
    /\ pc = "call"
    /\ pc' = "grouped"
    /\ grouped' = group_commits_by_date(commits)
    /\ UNCHANGED <<exc, start_date, end_date, filtered, varsE, varsF, varsS, varsR, varsM>>

NextCommits == FilterCommits \/ GroupCommitsByDate

SpecCommits == InitCommits /\ [][NextCommits]_vars

\* a calendar date as a number that grows with the date
DayNumber(d) == d[1] * 372 + d[2] * 31 + d[3]

\* C1: filter_commits returns the commits, in their order, whose date d has
\* (start absent or start <= d) and (end absent or d <= end); with both bounds
\* absent that is the input, with start > end it is empty.  The commits' dates
\* are calendar dates; on a date that does not parse the call raises instead.
C1_FilterCommits ==
    LET Within(c) ==
            /\ start_date = None \/ DayNumber(start_date.val) <= DayNumber(c.date)
            /\ end_date = None \/ DayNumber(c.date) <= DayNumber(end_date.val)
        Parse == \A i \in 1..Len(commits) : commits[i].date \in ValidDates
    IN  /\ (pc \in {"filtered", "raised"}) => (pc = "filtered" <=> Parse)
        /\ pc = "filtered" =>
            /\ filtered = SelectSeq(commits, Within)
            /\ (start_date = None /\ end_date = None) => filtered = commits
            /\ (/\ start_date # None
                /\ end_date # None
                /\ DayNumber(start_date.val) > DayNumber(end_date.val))
                   => filtered = <<>>

C1_Witness ==
    /\ pc = "filtered"
    /\ start_date # None
    /\ end_date # None
    /\ Len(commits) = 3
    /\ Len(filtered) = 1
    /\ filtered[1] = commits[2]

RECURSIVE SumOfSizes(_, _)
SumOfSizes(g, keys) ==
    IF keys = {} THEN 0
    ELSE LET k == CHOOSE x \in keys : TRUE IN Len(g[k]) + SumOfSizes(g, keys \ {k})

\* C8: the keys of the grouping are the distinct dates of the input, the value
\* of a date is the messages of its commits in input order, and the group sizes
\* add up to the number of commits.
C8_GroupCommitsByDate ==
    pc = "grouped" =>
        /\ DOMAIN grouped = {commits[i].date : i \in 1..Len(commits)}
        /\ \A d \in DOMAIN grouped :
              LET OnDate(c) == c.date = d
                  cs == SelectSeq(commits, OnDate)
              IN  grouped[d] = [i \in 1..Len(cs) |-> cs[i].message]
        /\ SumOfSizes(grouped, DOMAIN grouped) = Len(commits)

C8_Witness ==
    /\ pc = "grouped"
    /\ Len(commits) = 3
    /\ Cardinality(DOMAIN grouped) = 2
    /\ commits[1].date = commits[3].date
    /\ commits[1].date # commits[2].date
    /\ commits[1].message # commits[3].message

-----------------------------------------------------------------------------
(* summarize_with_gemini for every answer of the remote end                 *)

Texts == {<<DASH, SP, LetterA, NL, STAR, SP, LetterB>>, <<LetterA>>, <<>>, <<SP>>}

Responses ==
    {NetworkError, TimedOut, HttpError(429), HttpError(500), NotJson,
     NoCandidates, EmptyCandidates, NoContent, NoParts, EmptyParts, NoText}
        \cup {Candidates(t) : t \in Texts}

InitSummarize ==
    /\ pc = "call"
    /\ exc = ""
    /\ messages \in SeqsUpTo(Subjects, 2) \ {<<>>}
    /\ response \in Responses
    /\ returned = <<>>
    /\ IdleE /\ IdleF /\ IdleG /\ IdleR /\ IdleM

SummarizeWithGemini ==
    /\ pc = "call"
    /\ LET r == summarize_with_gemini(messages, api_key, response) IN
        /\ pc' = IF r.exc = "" THEN "return" ELSE "raised"
        /\ exc' = r.exc
        /\ returned' = r.value
    /\ UNCHANGED <<messages, response, varsE, varsF, varsG, varsR, varsM>>

NextSummarize == SummarizeWithGemini

SpecSummarize == InitSummarize /\ [][NextSummarize]_vars

ShapeMismatches == {NoCandidates, EmptyCandidates, NoContent, NoParts, NoText}

\* C9 as stated: on HTTP success with a body without candidates, with empty
\* candidates, or whose first candidate lacks content, parts or text, the call
\* returns the "no summary" sentinel and does not fail.
C9_AsStated ==
    (pc # "call" /\ response \in ShapeMismatches) =>
        pc = "return" /\ returned = NoSummary

\* C9 amended: the call never fails on such a body; it returns the "no summary"
\* sentinel when candidates is missing or empty, and the error placeholder
\* naming the missing key when the first candidate lacks content, parts or
\* text.
C9_ShapeMismatch ==
    (pc # "call" /\ response \in ShapeMismatches) =>
        /\ pc = "return"
        /\ response \in {NoCandidates, EmptyCandidates} => returned = NoSummary
        /\ response = NoContent => returned = GeminiError("KeyError:content")
        /\ response = NoParts => returned = GeminiError("KeyError:parts")
        /\ response = NoText => returned = GeminiError("KeyError:text")

C9_Witness ==
    /\ pc = "return"
    /\ response = NoContent
    /\ returned # NoSummary

-----------------------------------------------------------------------------
(* save_repo_path, called up to MaxSaves times on a list file that is       *)
(* absent or holds distinct paths                                          *)

RepoPaths ==
    {<<SLASH, LetterA>>, <<SLASH, LetterB>>, <<SLASH, LetterB, SLASH, LetterA>>,
     <<LetterA, SP, LetterB>>}

\* the text the program has written after saving ps to an absent file
RECURSIVE ListText(_)
ListText(ps) == IF ps = <<>> THEN <<>> ELSE Head(ps) \o <<NL>> \o ListText(Tail(ps))

DistinctPaths ==
    {ps \in SeqsUpTo(RepoPaths, 2) : \A i, j \in 1..Len(ps) : i # j => ps[i] # ps[j]}

InitRepos ==
    /\ pc = "idle"
    /\ exc = ""
    /\ repos_file \in {Absent}
          \cup {[exists |-> TRUE, text |-> ListText(ps)] : ps \in DistinctPaths}
    /\ saved = <<>>
    /\ IdleE /\ IdleF /\ IdleG /\ IdleS /\ IdleM

SaveRepoPath ==
    /\ Len(saved) < MaxSaves
    /\ \E path \in RepoPaths :
        /\ repos_file' = save_repo_path(repos_file, path)
        /\ saved' = Append(saved, [path |-> path, before |-> repos_file])
    /\ UNCHANGED <<pc, exc, varsE, varsF, varsG, varsS, varsM>>

NextRepos == SaveRepoPath

SpecRepos == InitRepos /\ [][NextRepos]_vars

\* the lines of a list file, without the empty piece after the last newline
FileLines(f) ==
    LET NonEmpty(l) == l # <<>> IN SelectSeq(split(f.text, NL, -1), NonEmpty)

\* ps followed by the paths of qs it lacks, each once, in order
RECURSIVE Union(_, _)
Union(ps, qs) ==
    IF qs = <<>> THEN ps
    ELSE IF \E i \in 1..Len(ps) : ps[i] = Head(qs) THEN Union(ps, Tail(qs))
    ELSE Union(Append(ps, Head(qs)), Tail(qs))

\* C10: after any saves the file holds no path twice, holds every saved path,
\* keeps the paths in order of first save after those it started with, and a
\* save of a path already in the file left the file as it was.
C10_SaveRepoPath ==
    LET now == FileLines(repos_file)
        first == IF saved = <<>> THEN now ELSE FileLines(saved[1].before)
        After(i) == IF i = Len(saved) THEN repos_file ELSE saved[i + 1].before
    IN  /\ \A i, j \in 1..Len(now) : i # j => now[i] # now[j]
        /\ \A i \in 1..Len(saved) : \E j \in 1..Len(now) : now[j] = saved[i].path
        /\ now = Union(first, [i \in 1..Len(saved) |-> saved[i].path])
        /\ \A i \in 1..Len(saved) :
              (\E j \in 1..Len(FileLines(saved[i].before)) :
                    FileLines(saved[i].before)[j] = saved[i].path)
                  => After(i) = saved[i].before

C10_Witness ==
    /\ Len(saved) = 3
    /\ saved[1].before = Absent
    /\ saved[1].path = saved[3].path
    /\ saved[2].path # saved[1].path
    /\ Len(FileLines(repos_file)) = 2

-----------------------------------------------------------------------------
(* analyze_commits: the label, the report's path, the document             *)

\* os.path.basename(os.path.abspath(repo_path)): the last component
basename(path) ==
    LET NonEmpty(c) == c # <<>>
        comps == SelectSeq(split(path, SLASH, -1), NonEmpty)
    IN  IF comps = <<>> THEN <<>> ELSE comps[Len(comps)]

\* lines 116-119: a str has no strftime
DateStr(sd, ed) ==
    IF sd.type # "date" THEN [exc |-> "AttributeError", value |-> <<>>]
    ELSE IF sd = ed THEN [exc |-> "", value |-> strftime(sd)]
    ELSE IF ed.type # "date" THEN [exc |-> "AttributeError", value |-> <<>>]
    ELSE [exc |-> "", value |-> strftime(sd) \o <<Literal(119)>> \o strftime(ed)]

\* os.path.join(REPORTS_DIR, repo_name, f"{date_str}.md")
ReportFile(repo_name, date_str) ==
    <<Literal(10), SLASH>> \o repo_name \o <<SLASH>> \o date_str \o <<Literal(122)>>

\* f"# Work Summary for {repo_name} ({date_str})\n"
Header(repo_name, date_str) ==
    <<Literal(123)>> \o repo_name \o <<SP, Chr(40)>> \o date_str \o <<Chr(41), NL>>

\* f"- {msg}" for msg in messages
Bullets(msgs) == [i \in 1..Len(msgs) |-> <<DASH, SP>> \o msgs[i]]

\* the lines one pass of the loop appends
SectionLines(date, text, msgs) ==
    <<<<Literal(127)>> \o date, <<Literal(129)>> \o text \o <<NL>>, <<Literal(130)>>>>
        \o Bullets(msgs) \o << <<>> >>

\* the report opened with 'a' in place of 'w'
AppendFile(fs, path, text) ==
    IF path \in DOMAIN fs THEN [fs EXCEPT ![path] = @ \o text] ELSE fs @@ (path :> text)

\* with open(report_file, 'w') as f: f.write(output)
WriteFile(fs, path, text) ==
    IF path \in DOMAIN fs THEN [fs EXCEPT ![path] = text] ELSE fs @@ (path :> text)

-----------------------------------------------------------------------------
(* The top-level flow: one run of the program                              *)

FlowDates == {<<2024, 1, 31>>, <<2024, 2, 1>>}
FlowSubjects == {<<LetterA>>, <<LetterB, PIPE, LetterA>>}
DateInputs == FlowDates \cup MalformedDates
Today == DateObj(<<2024, 2, 1>>)

\* the directories that exist
ExistingDirs == {<<SLASH, LetterA>>, <<SLASH, LetterB, SLASH, LetterA>>}
NewPathInputs == ExistingDirs \cup {<<SLASH, LetterB>>}

\* what git log prints for a history
GitLog(h) ==
    join(<<NL>>, [i \in 1..Len(h) |->
                    h[i].hash \o <<PIPE>> \o h[i].date \o <<PIPE>> \o h[i].message])

Histories ==
    SeqsUpTo({[hash |-> <<LetterA>>, date |-> d, message |-> m] :
                 d \in FlowDates, m \in FlowSubjects}, MaxLog)

\* what subprocess.run can give in directory path
GitResults(path) ==
    IF path \notin ExistingDirs
    THEN {[error |-> "FileNotFoundError", stdout |-> <<>>]}
    ELSE {[error |-> "CalledProcessError", stdout |-> <<>>]}
             \cup {[error |-> "", stdout |-> GitLog(h)] : h \in Histories}

FlowResponses ==
    {Candidates(<<DASH, SP, LetterA, NL, STAR, SP, LetterB>>), Candidates(<<LetterA>>),
     NetworkError, TimedOut, HttpError(500), NoCandidates, NoContent}

\* what a report file of an earlier run may hold
Stale == <<LetterB>>
AllReportFiles ==
    {ReportFile(basename(r), l) : r \in ExistingDirs,
        l \in {strftime(DateObj(a)) : a \in FlowDates}
                 \cup {strftime(DateObj(a)) \o <<Literal(119)>> \o strftime(DateObj(b)) :
                          a \in FlowDates, b \in FlowDates}}

Init ==
    /\ pc = "prompt_repo"
    /\ exc = ""
    /\ repos_file \in {Absent,
          [exists |-> TRUE, text |-> ListText(<<<<SLASH, LetterA>>, <<SLASH, LetterB>>>>)]}
    /\ saved = <<>>
    /\ files \in {<<>>, [f \in AllReportFiles |-> Stale]}
    /\ repo_path = <<>>
    /\ api_key = ""
    /\ exit_code = -1
    /\ choice = ""
    /\ console = ""
    /\ todo = <<>>
    /\ output_lines = <<>>
    /\ all_points = <<>>
    /\ calls = <<>>
    /\ report_file = <<>>
    /\ writes = 0
    /\ IdleE /\ IdleF /\ IdleG /\ IdleS

\* print(msg); sys.exit(code)
Exit(code, msg) ==
    /\ pc' = "exit"
    /\ exit_code' = code
    /\ console' = msg

\* lines 170-176 and 184-190: a new path is saved when it is a directory
EnterNewPath ==
    \E new_path \in NewPathInputs :
        IF new_path \in ExistingDirs
        THEN /\ repos_file' = save_repo_path(repos_file, new_path)
             /\ saved' = Append(saved, [path |-> new_path, before |-> repos_file])
             /\ repo_path' = new_path
             /\ pc' = "prompt_type"
             /\ UNCHANGED <<exit_code, console>>
        ELSE /\ Exit(1, "Invalid directory path.")
             /\ UNCHANGED <<repos_file, saved, repo_path>>

\* prompt_repo_path: n is int(choice), or the input is no integer
PromptRepoPath ==
    /\ pc = "prompt_repo"
    /\ LET paths == load_repo_paths(repos_file) IN
        \/ /\ paths = <<>>
           /\ EnterNewPath
        \/ /\ paths # <<>>
           /\ \E n \in 1..Len(paths) :
                /\ repo_path' = paths[n]
                /\ pc' = "prompt_type"
                /\ UNCHANGED <<repos_file, saved, exit_code, console>>
        \/ /\ paths # <<>>
           /\ EnterNewPath
        \/ /\ paths # <<>>
           /\ \E n \in {0, Len(paths) + 2} : Exit(1, "Invalid choice.")
           /\ UNCHANGED <<repos_file, saved, repo_path>>
        \/ /\ paths # <<>>
           /\ Exit(1, "Invalid input.")
           /\ UNCHANGED <<repos_file, saved, repo_path>>
    /\ UNCHANGED <<exc, varsE, varsF, varsG, varsS, api_key, choice, todo,
                   output_lines, all_points, calls, files, report_file, writes>>

\* prompt_user, lines 194-224: the analysis type and its dates
PromptAnalysisType ==
    /\ pc = "prompt_type"
    /\ \E c \in {"1", "2", "3", "4", "5", "9"} :
        /\ choice' = c
        /\ \/ /\ c = "2"
              /\ \E s \in DateInputs :
                    IF strptime(s).exc = ""
                    THEN /\ start_date' = strptime(s).value
                         /\ end_date' = strptime(s).value
                         /\ pc' = "prompt_key"
                         /\ UNCHANGED <<exit_code, console>>
                    ELSE /\ Exit(1, "Invalid date format.")
                         /\ UNCHANGED <<start_date, end_date>>
           \/ /\ c = "3"
              /\ \E s \in DateInputs, e \in DateInputs :
                    IF strptime(s).exc = "" /\ strptime(e).exc = ""
                    THEN /\ start_date' = strptime(s).value
                         /\ end_date' = strptime(e).value
                         /\ pc' = "prompt_key"
                         /\ UNCHANGED <<exit_code, console>>
                    ELSE /\ Exit(1, "Invalid date format.")
                         /\ UNCHANGED <<start_date, end_date>>
           \/ /\ c = "4"
              /\ start_date' = Today
              /\ end_date' = Today
              /\ pc' = "prompt_key"
              /\ UNCHANGED <<exit_code, console>>
           \/ /\ c = "5"
              /\ start_date' = MinusOneDay(Today)
              /\ end_date' = MinusOneDay(Today)
              /\ pc' = "prompt_key"
              /\ UNCHANGED <<exit_code, console>>
           \/ /\ c \notin {"2", "3", "4", "5"}
              /\ pc' = "prompt_key"
              /\ UNCHANGED <<start_date, end_date, exit_code, console>>
    /\ UNCHANGED <<exc, varsE, varsF, filtered, grouped, varsS, varsR, repo_path,
                   api_key, todo, output_lines, all_points, calls, files,
                   report_file, writes>>

\* prompt_user, lines 226-234: the .env file, the environment, the prompt
PromptApiKey ==
    /\ pc = "prompt_key"
    /\ \E dotenv \in {"", "k"}, env \in {"", "k"}, typed \in {"", "k"} :
        LET key == IF dotenv # "" THEN dotenv ELSE IF env # "" THEN env ELSE typed IN
        IF key = ""
        THEN /\ Exit(1, "Gemini API key required for smart summary.")
             /\ UNCHANGED api_key
        ELSE /\ api_key' = key
             /\ pc' = "fetch"
             /\ UNCHANGED <<exit_code, console>>
    /\ UNCHANGED <<exc, varsE, varsF, varsG, varsS, varsR, repo_path, choice, todo,
                   output_lines, all_points, calls, files, report_file, writes>>

\* lines 238-241
MainFetch ==
    /\ pc = "fetch"
    /\ \E r \in GitResults(repo_path) :
        /\ result' = r
        /\ commits' = fetch_commits(r)
        /\ IF fetch_commits(r) = <<>>
           THEN Exit(1, "No commits found.")
           ELSE pc' = "filter" /\ UNCHANGED <<exit_code, console>>
    /\ UNCHANGED <<exc, varsE, varsG, varsS, varsR, repo_path, api_key, choice, todo,
                   output_lines, all_points, calls, files, report_file, writes>>

\* lines 242-245
MainFilter ==
    /\ pc = "filter"
    /\ LET r == filter_commits(commits, start_date, end_date) IN
        /\ filtered' = r.value
        /\ exc' = r.exc
        /\ IF r.exc # "" THEN pc' = "crashed" /\ UNCHANGED <<exit_code, console>>
           ELSE IF r.value = <<>>
                THEN Exit(0, "No commits found for the specified date or range.")
           ELSE pc' = "analyze" /\ UNCHANGED <<exit_code, console>>
    /\ UNCHANGED <<varsE, varsF, start_date, end_date, grouped, varsS, varsR,
                   repo_path, api_key, choice, todo, output_lines, all_points,
                   calls, files, report_file, writes>>

\* lines 246-252 and 114-124: the call of analyze_commits up to its loop
AnalyzeCommits ==
    /\ pc = "analyze"
    /\ LET sd == IF start_date # None THEN start_date ELSE StrObj(filtered[1].date)
           ed == IF end_date # None THEN end_date
                 ELSE StrObj(filtered[Len(filtered)].date)
           repo_name == basename(repo_path)
           date_str == DateStr(sd, ed)
       IN  /\ start_date' = sd
           /\ end_date' = ed
           /\ grouped' = group_commits_by_date(filtered)
           /\ exc' = date_str.exc
           /\ IF date_str.exc # ""
              THEN /\ pc' = "crashed"
                   /\ UNCHANGED <<report_file, output_lines, todo>>
              ELSE /\ pc' = "summarize"
                   /\ report_file' = ReportFile(repo_name, date_str.value)
                   /\ output_lines' = <<Header(repo_name, date_str.value)>>
                   /\ todo' = sorted(DOMAIN group_commits_by_date(filtered))
    /\ UNCHANGED <<varsE, varsF, filtered, varsS, varsR, repo_path, api_key,
                   exit_code, choice, console, all_points, calls, files, writes>>

\* lines 125-136: one pass of the loop
SummarizeDate ==
    /\ pc = "summarize"
    /\ todo # <<>>
    /\ \E resp \in FlowResponses :
        LET date == Head(todo)
            r == summarize_with_gemini(grouped[date], api_key, resp)
        IN  /\ messages' = grouped[date]
            /\ response' = resp
            /\ returned' = r.value
            /\ exc' = r.exc
            /\ calls' = Append(calls, [date |-> date, response |-> resp,
                                       summary |-> r.value])
            /\ IF r.exc # ""
               THEN /\ pc' = "crashed"
                    /\ UNCHANGED <<todo, output_lines, all_points, summary, points>>
               ELSE /\ pc' = "summarize"
                    /\ todo' = Tail(todo)
                    /\ output_lines' =
                          output_lines \o SectionLines(date, r.value, grouped[date])
                    /\ summary' = r.value
                    /\ points' = extract_task_points(r.value)
                    /\ all_points' = all_points \o extract_task_points(r.value)
    /\ UNCHANGED <<varsF, varsG, varsR, repo_path, api_key, exit_code, choice,
                   console, files, report_file, writes>>

\* lines 137-142: the report is written, the points are printed
WriteReport ==
    /\ pc = "summarize"
    /\ todo = <<>>
    /\ files' = WriteFile(files, report_file, join(<<NL>>, output_lines))
    /\ writes' = writes + 1
    /\ pc' = "done"
    /\ exit_code' = 0
    /\ UNCHANGED <<exc, varsE, varsF, varsG, varsS, varsR, repo_path, api_key,
                   choice, console, todo, output_lines, all_points, calls,
                   report_file>>

Next ==
    \/ PromptRepoPath
    \/ PromptAnalysisType
    \/ PromptApiKey
    \/ MainFetch
    \/ MainFilter
    \/ AnalyzeCommits
    \/ SummarizeDate
    \/ WriteReport

Spec == Init /\ [][Next]_vars

-----------------------------------------------------------------------------
(* Properties of the top-level flow                                        *)

Terminated == pc \in {"exit", "done", "crashed"}

\* the distinct dates of the commits handed to analyze_commits, ascending
RECURSIVE Ascending(_)
Ascending(S) ==
    IF S = {} THEN <<>>
    ELSE LET m == CHOOSE x \in S : \A y \in S : DayNumber(x) <= DayNumber(y) IN
         <<m>> \o Ascending(S \ {m})

FilteredDates == {filtered[i].date : i \in 1..Len(filtered)}

CallDates == [i \in 1..Len(calls) |-> calls[i].date]

\* the label of the resolved dates
Label ==
    IF start_date.val = end_date.val THEN start_date.val
    ELSE start_date.val \o <<Literal(119)>> \o end_date.val

RECURSIVE Concat(_)
Concat(texts) == IF texts = <<>> THEN <<>> ELSE Head(texts) \o Concat(Tail(texts))

\* the section of call i: heading, summary, blank line, the messages of the
\* date in commit order as bullets
SectionText(i) ==
    LET OnDate(c) == c.date = calls[i].date
        cs == SelectSeq(filtered, OnDate)
    IN  <<Literal(127)>> \o calls[i].date \o <<NL>>
            \o <<Literal(129)>> \o calls[i].summary \o <<NL, NL>>
            \o <<Literal(130), NL>>
            \o Concat([k \in 1..Len(cs) |-> <<DASH, SP>> \o cs[k].message \o <<NL>>])

\* the document of the run: the header, then the sections, one per line block
Document ==
    <<Literal(123)>> \o basename(repo_path) \o <<SP, Chr(40)>> \o Label
        \o <<Chr(41), NL>>
        \o Concat([i \in 1..Len(calls) |-> <<NL>> \o SectionText(i)])

Contains(text, part) ==
    \E i \in 1..(Len(text) - Len(part) + 1) : SubSeq(text, i, i + Len(part) - 1) = part

\* the part of a report from the heading of a date to the next heading
SectionOf(text, date) ==
    LET heading == <<Literal(127)>> \o date
        from == CHOOSE i \in 1..Len(text) :
                    SubSeq(text, i, i + Len(heading) - 1) = heading
        later == {j \in (from + 1)..Len(text) : text[j] = Literal(127)}
        upto == IF later = {} THEN Len(text)
                ELSE (CHOOSE j \in later : \A k \in later : j <= k) - 1
    IN  SubSeq(text, from, upto)

\* C3 as stated: a run ends with exit code 1 on an invalid input, a missing
\* directory, no credential or no commits at all, with exit code 0 when no
\* commit is in the range, or completes after the report is written; an early
\* exit has made no summarizer call and written no report.
C3_AsStated ==
    Terminated =>
        \/ /\ pc = "exit"
           /\ exit_code = 1
           /\ console \in {"Invalid input.", "Invalid choice.", "Invalid directory path.",
                           "Invalid date format.",
                           "Gemini API key required for smart summary.",
                           "No commits found."}
           /\ calls = <<>>
           /\ writes = 0
        \/ /\ pc = "exit"
           /\ exit_code = 0
           /\ commits # <<>>
           /\ filtered = <<>>
           /\ calls = <<>>
           /\ writes = 0
        \/ /\ pc = "done"
           /\ exit_code = 0
           /\ writes = 1
           /\ report_file \in DOMAIN files

\* C5 as stated: in every analysis type, a run whose filtered list is not
\* empty resolves the dates (from the filtered commits when the type gives
\* none), labels the report by the one date or by start_to_end, writes the
\* report and completes.
C5_AsStated ==
    (Terminated /\ filtered # <<>>) =>
        /\ pc = "done"
        /\ choice \notin {"2", "3", "4", "5"} =>
              /\ start_date.val = filtered[1].date
              /\ end_date.val = filtered[Len(filtered)].date
        /\ report_file = ReportFile(basename(repo_path), Label)
        /\ report_file \in DOMAIN files

Failed(resp) == resp \in {NetworkError, TimedOut, HttpError(500)}

\* C4: whatever the remote end does on each call, the summarizer returns a
\* string and raises nothing, so a run that has called it goes on through
\* every date group and writes the report, and the report's section of a date
\* whose call failed holds the error placeholder.
C4_FailuresDegrade ==
    /\ pc = "crashed" => calls = <<>>
    /\ pc = "summarize" => CallDates \o todo = Ascending(FilteredDates)
    /\ (Terminated /\ calls # <<>>) =>
        /\ pc = "done"
        /\ CallDates = Ascending(FilteredDates)
        /\ \A i \in 1..Len(calls) :
              Failed(calls[i].response) =>
                  Contains(SectionOf(files[report_file], calls[i].date),
                           <<Literal(129), Literal(96)>>
                               \o ExcText(IF calls[i].response.raises # ""
                                          THEN calls[i].response.raises
                                          ELSE "HTTPError")
                               \o <<Chr(93)>>)

C4_Witness ==
    /\ pc = "done"
    /\ Len(calls) = 2
    /\ calls[1].response = TimedOut
    /\ calls[2].response = Candidates(<<LetterA>>)

\* C7: a run opens the report for writing at most once and only after every
\* date group is summarized; a completed run has written it once, at the path
\* made of the repository's base name and the label, and the file then holds
\* exactly the run's document (header, then a section per date in ascending
\* order), whatever it held before.
C7_ReportWrittenOnce ==
    /\ writes <= 1
    /\ writes = 1 =>
        /\ pc = "done"
        /\ CallDates = Ascending(FilteredDates)
    /\ pc = "done" =>
        /\ writes = 1
        /\ report_file = <<Literal(10), SLASH>> \o basename(repo_path) \o <<SLASH>>
                             \o Label \o <<Literal(122)>>
        /\ files[report_file] = Document

C7_Witness ==
    /\ pc = "done"
    /\ Len(calls) = 2
    /\ start_date # end_date
    /\ \E f \in DOMAIN files : f # report_file /\ files[f] = Stale

====
